---- MODULE Spec2Model ----
(***************************************************************************)
(* empty-bucket (src/index.js): the two pagination passes of main(), the   *)
(* doUntil driver, the three facade functions, and the remote bucket they  *)
(* talk to.                                                                *)
(*                                                                         *)
(* Two specifications share every action:                                  *)
(*   Spec     the remote is a consistent bucket (versioned or not) that    *)
(*            answers list calls from its content and applies deletes;     *)
(*   SpecAny  the remote answers list calls with any well-formed response  *)
(*            (any page, any token), as the code itself assumes nothing    *)
(*            about the relation between page content and token.           *)
(* In both, any remote call may fail.  SpecFair and SpecAnyFair add weak    *)
(* fairness of the next-state relation: a callback always arrives and the  *)
(* event loop always runs the next handler.                                *)
(***************************************************************************)
EXTENDS Integers, Sequences, FiniteSets, TLC

\* ---------------------------------------------------------------- bounds
MaxKey == 2
MaxEntries == 3
MaxBulkSize == 2
MaxCalls == 2
MaxAnyKey == 1

\* `undefined`: an absent token, marker or version id (keys and ids are >= 1)
Absent == 0

Keys == 1..MaxKey

\* the keys the arbitrary remote names in its responses
AnyKeys == 1..MaxAnyKey

VARIABLES
  remote,        \* "consistent" | "arbitrary": which remote answers
  initial,       \* remote: the content of the bucket when main() started
  bucket,        \* remote: set of [Key, VersionId, IsDeleteMarker]
  versioned,     \* remote: versioning enabled on the bucket
  bulkSize,      \* const bulkSize (--bulk-size)
  pass,          \* 1: doUntil of the object pass, 2: of the version pass
  pc,            \* position in doUntil / the promise chain of main
  marker,        \* let marker            (pass 1)
  keyMarker,     \* let keyMarker         (pass 2)
  versionMarker, \* let versionMarker     (pass 2)
  inFlight,      \* remote requests issued and not yet called back
  exitCode,      \* {} while running, {n} after process.exit(n)
  resultList,    \* the latest list response handed to a callback
  pageDeletes,   \* deleteObjects calls issued for that response
  lastBatch,     \* params.Delete.Objects of the latest deleteObjects call
  listCalls,     \* [pass -> number of list calls issued]
  deleteCalls,   \* [pass -> number of deleteObjects calls issued]
  failed,        \* 0, or the pass in which a remote call first failed
  backing,       \* [pass -> size of the listed collection when the pass began]
  rejection,     \* the error the action's promise was rejected with, or "none"
  onErrorArgs,   \* the errors handed to a pass's error handler, in order
  promise        \* the promise doUntil returned for the running pass

vars == <<remote, initial, bucket, versioned, bulkSize, pass, pc, marker, keyMarker,
          versionMarker, inFlight, exitCode, resultList, pageDeletes,
          lastBatch, listCalls, deleteCalls, failed, backing,
          rejection, onErrorArgs, promise>>

\* ---------------------------------------------------------------- helpers
Min(a, b) == IF a <= b THEN a ELSE b

Take(s, n) == SubSeq(s, 1, Min(n, Len(s)))

\* listing order: keys ascending, and for one key the newest version first
Before(e, f) ==
  \/ e.Key < f.Key
  \/ e.Key = f.Key /\ e.VersionId > f.VersionId

First(S) == CHOOSE e \in S : \A f \in S \ {e} : Before(e, f)

RECURSIVE Ordered(_)
Ordered(S) == IF S = {} THEN <<>> ELSE <<First(S)>> \o Ordered(S \ {First(S)})

Range(s) == {s[i] : i \in 1..Len(s)}

Ref(e) == [Key |-> e.Key, VersionId |-> e.VersionId]

\* ---------------------------------------------------------------- remote bucket
HasKey(b, k) == \E e \in b : e.Key = k

Latest(b, k) ==
  CHOOSE e \in b : e.Key = k /\ \A f \in b : f.Key = k => f.VersionId <= e.VersionId

\* keys a listObjectsV2 call shows: the latest version is not a delete marker
CurrentObjects(b) == {k \in Keys : HasKey(b, k) /\ ~Latest(b, k).IsDeleteMarker}

\* one entry of a deleteObjects batch applied to the bucket
DeleteOne(b, v, ref) ==
  IF ref.VersionId # Absent
  THEN {e \in b : ~(e.Key = ref.Key /\ e.VersionId = ref.VersionId)}
  ELSE IF v
       THEN b \cup {[Key |-> ref.Key,
                     VersionId |-> IF HasKey(b, ref.Key)
                                   THEN Latest(b, ref.Key).VersionId + 1 ELSE 1,
                     IsDeleteMarker |-> TRUE]}
       ELSE {e \in b : e.Key # ref.Key}

RECURSIVE DeleteAll(_, _, _)
DeleteAll(b, v, refs) ==
  IF refs = <<>> THEN b ELSE DeleteAll(DeleteOne(b, v, Head(refs)), v, Tail(refs))

\* the shape of every list response (fields of the other call are empty)
Result(op, contents, token, versions, deleteMarkers, truncated, nkm, nvm) ==
  [op |-> op, Contents |-> contents, NextContinuationToken |-> token,
   Versions |-> versions, DeleteMarkers |-> deleteMarkers,
   IsTruncated |-> truncated, NextKeyMarker |-> nkm, NextVersionIdMarker |-> nvm]

NoResult == Result("none", <<>>, Absent, <<>>, <<>>, FALSE, Absent, Absent)

\* s3.listObjectsV2 on a consistent bucket: the page after the token, and a
\* token when more remain; a remote may also hand out a token with the last
\* non-empty page and answer the next call with an empty page.
ConsistentObjects(b, params) ==
  LET rest == Ordered({[Key |-> k, VersionId |-> Absent] :
                         k \in {x \in CurrentObjects(b) : x > params.ContinuationToken}})
      page == Take(rest, params.MaxKeys)
      more == Len(rest) > Len(page)
      last == IF page = <<>> THEN Absent ELSE page[Len(page)].Key
  IN  {Result("listObjectsV2", page, IF t THEN last ELSE Absent,
              <<>>, <<>>, t, Absent, Absent) :
         t \in {more} \cup (IF page # <<>> THEN {TRUE} ELSE {})}

\* s3.listObjectVersions on a consistent bucket
ConsistentVersions(b, params) ==
  LET after(e) == \/ e.Key > params.KeyMarker
                  \/ e.Key = params.KeyMarker /\ e.VersionId < params.VersionIdMarker
      rest == Ordered({e \in b : after(e)})
      page == Take(rest, params.MaxKeys)
      more == Len(rest) > Len(page)
      pick(dm) == Ordered({Ref(e) : e \in {x \in Range(page) : x.IsDeleteMarker = dm}})
      lastK == IF page = <<>> THEN Absent ELSE page[Len(page)].Key
      lastV == IF page = <<>> THEN Absent ELSE page[Len(page)].VersionId
  IN  {Result("listObjectVersions", <<>>, Absent, pick(FALSE), pick(TRUE), t,
              IF t THEN lastK ELSE Absent, IF t THEN lastV ELSE Absent) :
         t \in {more} \cup (IF page # <<>> THEN {TRUE} ELSE {})}

\* any well-formed listObjectsV2 response
ArbitraryObjects ==
  {Result("listObjectsV2", Ordered({[Key |-> k, VersionId |-> Absent] : k \in S}),
          t, <<>>, <<>>, t # Absent, Absent, Absent) :
     S \in SUBSET AnyKeys, t \in {Absent} \cup AnyKeys}

\* any well-formed listObjectVersions response: a truncated one names both
\* next markers; a final one may carry anything in the marker fields
ArbitraryVersions ==
  {Result("listObjectVersions", <<>>, Absent,
          Ordered({[Key |-> k, VersionId |-> 1] : k \in {x \in AnyKeys : a[x] = "version"}}),
          Ordered({[Key |-> k, VersionId |-> 1] : k \in {x \in AnyKeys : a[x] = "marker"}}),
          m[1], m[2], m[3]) :
     a \in [AnyKeys -> {"none", "version", "marker"}],
     m \in ({TRUE} \X AnyKeys \X {1}) \cup ({FALSE} \X ({Absent} \cup AnyKeys) \X {Absent, 1})}

\* ---------------------------------------------------------------- facade
Request(op, p, token, km, vm, objects) ==
  [op |-> op, pass |-> p, ContinuationToken |-> token, KeyMarker |-> km,
   VersionIdMarker |-> vm, MaxKeys |-> bulkSize, Objects |-> objects]

listObjectsFromStart(m) == Request("listObjectsV2", 1, Absent, Absent, Absent, <<>>)

\* function listObjects(marker, callback)
listObjects(m) == Request("listObjectsV2", 1, m, Absent, Absent, <<>>)

\* function listVersions(keyMarker, versionMarker, callback)
listVersions(km, vm) == Request("listObjectVersions", 2, Absent, km, vm, <<>>)

DeleteParamsFirstOnly(objects) ==
  [i \in 1..Min(1, Len(objects)) |->
     [Key |-> objects[i].Key, VersionId |-> objects[i].VersionId]]

DeleteParamsKeysOnly(objects) ==
  [i \in 1..Len(objects) |-> [Key |-> objects[i].Key, VersionId |-> Absent]]

\* function deleteObjects(objects, callback): params.Delete.Objects
DeleteParams(objects) ==
  [i \in 1..Len(objects) |->
     IF objects[i].VersionId # Absent
     THEN [Key |-> objects[i].Key, VersionId |-> objects[i].VersionId]
     ELSE [Key |-> objects[i].Key, VersionId |-> Absent]]

deleteObjects(p, objects) ==
  Request("deleteObjects", p, Absent, Absent, Absent, DeleteParams(objects))

\* what the remote may answer to a list request
ListObjectsV2(r) ==
  IF remote = "consistent" THEN ConsistentObjects(bucket, r) ELSE ArbitraryObjects

ListObjectVersions(r) ==
  IF remote = "consistent" THEN ConsistentVersions(bucket, r) ELSE ArbitraryVersions

\* ---------------------------------------------------------------- main: closures
SettleAlwaysResolves(p, to) == IF pass = p /\ pc = "await" THEN "then" ELSE pc

\* resolve()/reject() of the promise of pass p's action: a settled promise
\* stays as it is
Settle(p, to) == IF pass = p /\ pc = "await" THEN to ELSE pc

ResolvedBeforeDelete(p) == Settle(p, "then")

\* the promise stays pending while the nested deleteObjects is in flight
Pending(p) == pc

NeverEmptyContents(res) == FALSE

\* pass 1: if (resultList.Contents.length === 0) return resolve();
EmptyContents(res) == Len(res.Contents) = 0

\* pass 2: if (resultList.DeleteMarkers.length === 0) return resolve();
NoDeleteMarkers(res) == Len(res.DeleteMarkers) = 0

ToDeletePlusStale(res) ==
  res.Versions \o res.DeleteMarkers \o lastBatch

\* pass 2: toDelete, the versions then the delete markers
ToDelete(res) ==
  (IF Len(res.Versions) > 0 THEN res.Versions ELSE <<>>)
    \o (IF Len(res.DeleteMarkers) > 0 THEN res.DeleteMarkers ELSE <<>>)

RawMarkers(res) == <<res.NextKeyMarker, res.NextVersionIdMarker>>

\* pass 2: the markers kept from a response, <<keyMarker, versionMarker>>
NextMarkers(res) ==
  IF res.IsTruncated
  THEN <<res.NextKeyMarker, res.NextVersionIdMarker>>
  ELSE <<Absent, Absent>>

EmptyPageOrNoMarker == marker = Absent \/ Len(resultList.Contents) = 0

\* condition of pass 1: !marker
Condition1 == marker = Absent

OnePageOnly == TRUE

MorePagesAlways == FALSE

\* condition of pass 2: !keyMarker
Condition2 == keyMarker = Absent

Condition(p) == IF p = 1 THEN Condition1 ELSE Condition2

ExitOne(p) == exitCode' = {1} /\ pc' = "exit"

ErrorSwallowed(p) == exitCode' = exitCode /\ pc' = "resolved"

RetryOnError(p) == exitCode' = exitCode /\ pc' = "action"

\* the error handlers: logger.error(...); process.exit(1 or 2)
OnError(p) == exitCode' = {p} /\ pc' = "exit"

Fail(r) == IF failed = 0 THEN r.pass ELSE failed

\* reject(errList) / reject(errDelete): the error is the failed call's; a
\* promise that is already settled keeps its state
Rejected(r) == IF pass = r.pass /\ pc = "await" THEN r.op ELSE rejection

\* ---------------------------------------------------------------- actions
\* one more call counted; with the arbitrary remote, where a pass may go on
\* for ever, the counters stop at MaxCalls ("MaxCalls or more")
Counted(n) == IF remote = "arbitrary" /\ n >= MaxCalls THEN n ELSE n + 1

\* doUntil: wrap(action); the action issues the list call of its pass
DoUntilAction ==
  /\ exitCode = {}
  /\ pc = "action"
  /\ inFlight' = inFlight \cup
       {IF pass = 1 THEN listObjects(marker) ELSE listVersions(keyMarker, versionMarker)}
  /\ listCalls' = [listCalls EXCEPT ![pass] = Counted(@)]
  /\ pc' = "await"
  /\ UNCHANGED <<remote, initial, bucket, versioned, bulkSize, pass, marker, keyMarker,
                 versionMarker, exitCode, resultList, pageDeletes, lastBatch,
                 deleteCalls, failed, backing,
                 rejection, onErrorArgs, promise>>

\* listObjects callback with errList
ListObjectsError ==
  /\ exitCode = {}
  /\ \E r \in inFlight :
       /\ r.op = "listObjectsV2"
       /\ inFlight' = inFlight \ {r}
       /\ failed' = Fail(r)
       /\ rejection' = Rejected(r)
       /\ pc' = Settle(r.pass, "catch")
  /\ UNCHANGED <<remote, initial, bucket, versioned, bulkSize, pass, marker, keyMarker,
                 versionMarker, exitCode, resultList, pageDeletes, lastBatch,
                 listCalls, deleteCalls, backing,
                 onErrorArgs, promise>>

\* listObjects callback with resultList
ListObjectsResult ==
  /\ exitCode = {}
  /\ \E r \in inFlight :
       /\ r.op = "listObjectsV2"
       /\ \E res \in ListObjectsV2(r) :
            /\ marker' = res.NextContinuationToken
            /\ resultList' = res
            /\ IF EmptyContents(res)
               THEN /\ inFlight' = inFlight \ {r}
                    /\ pc' = Settle(r.pass, "then")
                    /\ pageDeletes' = 0
                    /\ UNCHANGED <<lastBatch, deleteCalls>>
               ELSE /\ inFlight' = (inFlight \ {r}) \cup {deleteObjects(r.pass, res.Contents)}
                    /\ pc' = Pending(r.pass)
                    /\ pageDeletes' = 1
                    /\ lastBatch' = DeleteParams(res.Contents)
                    /\ deleteCalls' = [deleteCalls EXCEPT ![r.pass] = Counted(@)]
  /\ UNCHANGED <<remote, initial, bucket, versioned, bulkSize, pass, keyMarker,
                 versionMarker, exitCode, listCalls, failed, backing,
                 rejection, onErrorArgs, promise>>

\* listVersions callback with errList
ListVersionsError ==
  /\ exitCode = {}
  /\ \E r \in inFlight :
       /\ r.op = "listObjectVersions"
       /\ inFlight' = inFlight \ {r}
       /\ failed' = Fail(r)
       /\ rejection' = Rejected(r)
       /\ pc' = Settle(r.pass, "catch")
  /\ UNCHANGED <<remote, initial, bucket, versioned, bulkSize, pass, marker, keyMarker,
                 versionMarker, exitCode, resultList, pageDeletes, lastBatch,
                 listCalls, deleteCalls, backing,
                 onErrorArgs, promise>>

\* listVersions callback with resultList
ListVersionsResult ==
  /\ exitCode = {}
  /\ \E r \in inFlight :
       /\ r.op = "listObjectVersions"
       /\ \E res \in ListObjectVersions(r) :
            /\ keyMarker' = NextMarkers(res)[1]
            /\ versionMarker' = NextMarkers(res)[2]
            /\ resultList' = res
            /\ IF NoDeleteMarkers(res) \/ Len(ToDelete(res)) = 0
               THEN /\ inFlight' = inFlight \ {r}
                    /\ pc' = Settle(r.pass, "then")
                    /\ pageDeletes' = 0
                    /\ UNCHANGED <<lastBatch, deleteCalls>>
               ELSE /\ inFlight' = (inFlight \ {r}) \cup {deleteObjects(r.pass, ToDelete(res))}
                    /\ pc' = Pending(r.pass)
                    /\ pageDeletes' = 1
                    /\ lastBatch' = DeleteParams(ToDelete(res))
                    /\ deleteCalls' = [deleteCalls EXCEPT ![r.pass] = Counted(@)]
  /\ UNCHANGED <<remote, initial, bucket, versioned, bulkSize, pass, marker, exitCode,
                 listCalls, failed, backing,
                 rejection, onErrorArgs, promise>>

\* deleteObjects callback with errDelete (either pass)
DeleteObjectsError ==
  /\ exitCode = {}
  /\ \E r \in inFlight :
       /\ r.op = "deleteObjects"
       /\ inFlight' = inFlight \ {r}
       /\ failed' = Fail(r)
       /\ rejection' = Rejected(r)
       /\ pc' = Settle(r.pass, "catch")
  /\ UNCHANGED <<remote, initial, bucket, versioned, bulkSize, pass, marker, keyMarker,
                 versionMarker, exitCode, resultList, pageDeletes, lastBatch,
                 listCalls, deleteCalls, backing,
                 onErrorArgs, promise>>

\* deleteObjects callback with resultDelete (either pass): the remote has
\* applied the batch
DeleteObjectsResult ==
  /\ exitCode = {}
  /\ \E r \in inFlight :
       /\ r.op = "deleteObjects"
       /\ inFlight' = inFlight \ {r}
       /\ bucket' = DeleteAll(bucket, versioned, r.Objects)
       /\ pc' = Settle(r.pass, "then")
  /\ UNCHANGED <<remote, initial, versioned, bulkSize, pass, marker, keyMarker,
                 versionMarker, exitCode, resultList, pageDeletes, lastBatch,
                 listCalls, deleteCalls, failed, backing,
                 rejection, onErrorArgs, promise>>

\* doUntil: .then(() => { if (!condition()) return loop(); })
DoUntilThen ==
  /\ exitCode = {}
  /\ pc = "then"
  /\ pc' = IF ~Condition(pass) THEN "action" ELSE "resolved"
  /\ promise' = IF ~Condition(pass) THEN promise ELSE "resolved"
  /\ UNCHANGED <<remote, initial, bucket, versioned, bulkSize, pass, marker, keyMarker,
                 versionMarker, inFlight, exitCode, resultList, pageDeletes,
                 lastBatch, listCalls, deleteCalls, failed, backing,
                 rejection, onErrorArgs>>

\* doUntil: .catch((err) => error(err)); error(err) ends the process, so the
\* handler never returns and the promise is left as it is
DoUntilCatch ==
  /\ exitCode = {}
  /\ pc = "catch"
  /\ onErrorArgs' = Append(onErrorArgs, [pass |-> pass, err |-> rejection])
  /\ OnError(pass)
  /\ UNCHANGED <<remote, initial, bucket, versioned, bulkSize, pass, marker, keyMarker,
                 versionMarker, inFlight, resultList, pageDeletes, lastBatch,
                 listCalls, deleteCalls, failed, backing,
                 rejection, promise>>

\* main: first .then: let keyMarker, versionMarker; return doUntil(...)
MainThenVersions ==
  /\ exitCode = {}
  /\ pc = "resolved"
  /\ pass = 1
  /\ pass' = 2
  /\ keyMarker' = Absent
  /\ versionMarker' = Absent
  /\ promise' = "pending"
  /\ pc' = "action"
  /\ backing' = [backing EXCEPT ![2] = Cardinality(bucket)]
  /\ UNCHANGED <<remote, initial, bucket, versioned, bulkSize, marker, inFlight, exitCode,
                 resultList, pageDeletes, lastBatch, listCalls, deleteCalls, failed,
                 rejection, onErrorArgs>>

\* main: second .then: logger.log(`Bucket ${bucket} emptied.`); process.exit(0)
MainThenEmptied ==
  /\ exitCode = {}
  /\ pc = "resolved"
  /\ pass = 2
  /\ exitCode' = {0}
  /\ pc' = "exit"
  /\ UNCHANGED <<remote, initial, bucket, versioned, bulkSize, pass, marker, keyMarker,
                 versionMarker, inFlight, resultList, pageDeletes, lastBatch,
                 listCalls, deleteCalls, failed, backing,
                 rejection, onErrorArgs, promise>>

\* ---------------------------------------------------------------- specifications
BoolSeqs == UNION {[1..n -> BOOLEAN] : n \in 0..MaxEntries}

\* the state main() starts in, whatever the remote
Start ==
  /\ bulkSize \in 1..MaxBulkSize
  /\ pass = 1
  /\ pc = "action"
  /\ marker = Absent
  /\ keyMarker = Absent
  /\ versionMarker = Absent
  /\ inFlight = {}
  /\ exitCode = {}
  /\ resultList = NoResult
  /\ pageDeletes = 0
  /\ lastBatch = <<>>
  /\ listCalls = [p \in 1..2 |-> 0]
  /\ deleteCalls = [p \in 1..2 |-> 0]
  /\ failed = 0
  /\ rejection = "none"
  /\ onErrorArgs = <<>>
  /\ promise = "pending"

\* a consistent bucket of at most MaxEntries entries: versioned (per key a
\* stack of versions and delete markers) or not (per key at most one object)
Init ==
  /\ remote = "consistent"
  /\ versioned \in BOOLEAN
  /\ \E stacks \in [Keys -> BoolSeqs] :
       /\ bucket = UNION {{[Key |-> k, VersionId |-> i, IsDeleteMarker |-> stacks[k][i]] :
                             i \in 1..Len(stacks[k])} : k \in Keys}
       /\ Cardinality(bucket) <= MaxEntries
       /\ initial = bucket
       /\ ~versioned => \A k \in Keys : Len(stacks[k]) <= 1 /\ stacks[k] # <<TRUE>>
  /\ backing = [p \in 1..2 |-> IF p = 1 THEN Cardinality(CurrentObjects(bucket)) ELSE 0]
  /\ Start

InitAny ==
  /\ remote = "arbitrary"
  /\ bulkSize = MaxBulkSize
  /\ versioned = FALSE
  /\ bucket = {}
  /\ initial = {}
  /\ backing = [p \in 1..2 |-> 0]
  /\ Start

Next ==
  \/ DoUntilAction
  \/ ListObjectsError
  \/ ListObjectsResult
  \/ ListVersionsError
  \/ ListVersionsResult
  \/ DeleteObjectsError
  \/ DeleteObjectsResult
  \/ DoUntilThen
  \/ DoUntilCatch
  \/ MainThenVersions
  \/ MainThenEmptied

Spec == Init /\ [][Next]_vars

SpecAny == InitAny /\ [][Next]_vars

SpecFair == Spec /\ WF_vars(Next)

SpecAnyFair == SpecAny /\ WF_vars(Next)

\* ---------------------------------------------------------------- claims
CeilDiv(k, n) == (k + n - 1) \div n

Ops(S) == {r.op : r \in S}

EmptyPage(res) ==
  Len(res.Contents) = 0 /\ Len(res.Versions) = 0 /\ Len(res.DeleteMarkers) = 0

\* C1: whenever the process exits with code 0 the bucket holds no object,
\* no version and no delete marker (consistent remote, no other writer).
C1_ExitZeroMeansEmpty == exitCode = {0} => bucket = {}

\* C2: a run ends with one outcome among 0..3 and the outcome matches the
\* cause: 1 iff a call of the object pass failed, 2 iff a call of the version
\* pass failed, 0 (and 3) only if no remote call failed.
C2_OutcomeMatchesCause ==
  /\ exitCode \subseteq 0..3
  /\ Cardinality(exitCode) <= 1
  /\ exitCode # {} <=> pc = "exit"
  /\ exitCode # {} =>
       /\ exitCode = {1} <=> failed = 1
       /\ exitCode = {2} <=> failed = 2
       /\ exitCode \in {{0}, {3}} => failed = 0

C2_Witness == exitCode = {2} /\ failed = 2 /\ deleteCalls[1] > 0

\* C3: a listVersions call is issued only after the object pass completed
\* successfully: once one is issued no request of pass 1 is left or follows,
\* and after a failure in pass 1 none is ever issued.
C3_VersionsOnlyAfterObjects ==
  listCalls[2] > 0 =>
    /\ pass = 2
    /\ failed # 1
    /\ marker = Absent
    /\ \A r \in inFlight : r.pass = 2

C3_Witness ==
  /\ "listObjectVersions" \in Ops(inFlight)
  /\ listCalls[1] > 1
  /\ deleteCalls[1] > 1

\* C4: every listVersions response with V versions and D delete markers gets
\* exactly one deleteObjects call holding exactly its V+D references when
\* V+D > 0, and none when V+D = 0.
C4_MergeCorrectness ==
  resultList.op = "listObjectVersions" =>
    IF Len(resultList.Versions) + Len(resultList.DeleteMarkers) > 0
    THEN pageDeletes = 1 /\ lastBatch = resultList.Versions \o resultList.DeleteMarkers
    ELSE pageDeletes = 0

\* C5: once a remote call has failed no further remote call is issued, and
\* the run ends with the exit code of the pass that failed.
C5_NoRetryNoRecovery ==
  /\ [][failed # 0 =>
          /\ listCalls' = listCalls
          /\ deleteCalls' = deleteCalls
          /\ inFlight' \subseteq inFlight]_vars
  /\ [](failed # 0 /\ exitCode # {} => exitCode = {failed})
  /\ \A p \in 1..2 : (failed = p) ~> (exitCode = {p})

C5_Witness == failed = 1 /\ exitCode = {1} /\ deleteCalls[1] > 0 /\ bucket # {}

\* C6: at most one remote request is in flight; the driver is past its await
\* only when none is, so an action starts after the previous one, nested
\* delete included, and the requests of the two passes never overlap.
C6_OneRequestInFlight ==
  /\ Cardinality(inFlight) <= 1
  /\ pc # "await" => inFlight = {}
  /\ \A r \in inFlight : r.pass = pass

C6_Witness ==
  /\ "deleteObjects" \in Ops(inFlight)
  /\ listCalls[2] > 1
  /\ deleteCalls[1] > 0

\* C7: without remote failure a pass over K entries with page size P ends
\* after ceil(K/P) list calls, plus one when the end is signalled by a
\* final empty page.
C7_ListCallsPerPass ==
  pc = "resolved" =>
    listCalls[pass] = CeilDiv(backing[pass], bulkSize)
                        + (IF EmptyPage(resultList) THEN 1 ELSE 0)

C7_Witness ==
  /\ pc = "resolved"
  /\ pass = 2
  /\ listCalls[2] = 3
  /\ ~EmptyPage(resultList)
  /\ bulkSize = 2

\* C8: on a bucket with no object, version or delete marker the run issues
\* one listObjects call, one listVersions call and no deleteObjects call, and
\* exits with code 0.
C8_EmptyBucket ==
  initial = {} =>
    /\ \A p \in 1..2 : listCalls[p] <= 1 /\ deleteCalls[p] = 0
    /\ failed = 0 /\ exitCode # {} =>
         exitCode = {0} /\ listCalls[1] = 1 /\ listCalls[2] = 1

C8_Witness == initial = {} /\ exitCode = {0} /\ versioned

\* C9 as stated: in the object pass an empty page ends the pass at once,
\* token or not: no deleteObjects and no further listObjects call follow it.
C9_EmptyPageEndsPass ==
  (pass = 1 /\ resultList.op = "listObjectsV2" /\ Len(resultList.Contents) = 0) =>
    /\ pageDeletes = 0
    /\ Ops(inFlight) = {}

\* C9 amended: in the object pass an empty page gets no deleteObjects call;
\* the pass ends after it only if the response carries no continuation token,
\* and with a token the driver goes on to a further listObjects call that
\* carries it.
C9_EmptyPageNoDelete ==
  (pass = 1 /\ resultList.op = "listObjectsV2" /\ Len(resultList.Contents) = 0) =>
    /\ pageDeletes = 0
    /\ "deleteObjects" \notin Ops(inFlight)
    /\ pc = "resolved" => resultList.NextContinuationToken = Absent
    /\ (failed = 0 /\ resultList.NextContinuationToken # Absent) =>
         pc \in {"then", "action", "await"}
    /\ \A r \in inFlight :
         /\ resultList.NextContinuationToken # Absent
         /\ r.ContinuationToken = resultList.NextContinuationToken

C9_Witness ==
  /\ pass = 1
  /\ Len(resultList.Contents) = 0
  /\ resultList.NextContinuationToken # Absent
  /\ "listObjectsV2" \in Ops(inFlight)

\* C10: the stored (keyMarker, versionMarker) pair is both present or both
\* absent; after a truncated listVersions response both are present, after a
\* final one both are absent whatever the response's marker fields hold.
C10_MarkerCarry ==
  /\ keyMarker = Absent <=> versionMarker = Absent
  /\ resultList.op = "listObjectVersions" =>
       IF resultList.IsTruncated
       THEN /\ keyMarker = resultList.NextKeyMarker /\ keyMarker # Absent
            /\ versionMarker = resultList.NextVersionIdMarker /\ versionMarker # Absent
       ELSE keyMarker = Absent /\ versionMarker = Absent

C10_Witness ==
  /\ resultList.op = "listObjectVersions"
  /\ ~resultList.IsTruncated
  /\ resultList.NextKeyMarker # Absent
  /\ resultList.NextVersionIdMarker = Absent
  /\ keyMarker = Absent
  /\ listCalls[2] > 1

\* C11: the version pass completes successfully exactly when the latest
\* listVersions response reported no truncation: after a truncated response
\* (and no failure) the driver goes on to another listVersions call, after a
\* final one it never does.
C11_VersionPassEnd ==
  (pass = 2 /\ resultList.op = "listObjectVersions" /\ failed = 0) =>
    /\ pc \in {"resolved", "exit"} => ~resultList.IsTruncated
    /\ resultList.IsTruncated =>
         /\ pc \in {"await", "then", "action"}
         /\ \A r \in inFlight : r.op = "listObjectVersions" => listCalls[2] > 1
    /\ ~resultList.IsTruncated =>
         /\ pc \in {"await", "then", "resolved", "exit"}
         /\ "listObjectVersions" \notin Ops(inFlight)

C11_Witness ==
  /\ pass = 2
  /\ resultList.op = "listObjectVersions"
  /\ resultList.IsTruncated
  /\ "listObjectVersions" \in Ops(inFlight)
  /\ failed = 0

\* C12: the first list call of a pass carries no continuation state, every
\* later one carries exactly what the preceding list response of that pass
\* returned (the token in pass 1, the marker pair in pass 2), the stored
\* state stays what that response set while deletes run, and the object pass
\* is over exactly when a listObjects response carried no token.
C12_ContinuationThreading ==
  /\ \A r \in inFlight :
       /\ r.op = "listObjectsV2" =>
            IF listCalls[1] = 1
            THEN r.ContinuationToken = Absent
            ELSE /\ resultList.op = "listObjectsV2"
                 /\ r.ContinuationToken = resultList.NextContinuationToken
       /\ r.op = "listObjectVersions" =>
            IF listCalls[2] = 1
            THEN r.KeyMarker = Absent /\ r.VersionIdMarker = Absent
            ELSE /\ resultList.op = "listObjectVersions"
                 /\ r.KeyMarker = resultList.NextKeyMarker
                 /\ r.VersionIdMarker = resultList.NextVersionIdMarker
  /\ pass = 1 =>
       marker = IF resultList.op = "listObjectsV2"
                THEN resultList.NextContinuationToken ELSE Absent
  /\ pass = 2 =>
       /\ marker = Absent
       /\ <<keyMarker, versionMarker>> =
            IF resultList.op = "listObjectVersions" /\ resultList.IsTruncated
            THEN <<resultList.NextKeyMarker, resultList.NextVersionIdMarker>>
            ELSE <<Absent, Absent>>
  /\ (pass = 1 /\ listCalls[1] > 0 /\ failed = 0 /\ pc \in {"action", "resolved"}) =>
       (pc = "resolved" <=> resultList.NextContinuationToken = Absent)

C12_Witness ==
  /\ \E r \in inFlight : r.op = "listObjectsV2" /\ r.ContinuationToken # Absent
  /\ deleteCalls[1] > 0

\* C13: in the object pass every listObjects response with a non-empty page
\* gets exactly one deleteObjects call holding all its entries, issued before
\* any further list call; a bucket whose objects fit one page that comes
\* without token takes one list call and one delete call with all of them,
\* and then the version pass starts.
C13_OneDeletePerPage ==
  /\ (resultList.op = "listObjectsV2" /\ Len(resultList.Contents) > 0) =>
       /\ pageDeletes = 1
       /\ Len(lastBatch) = Len(resultList.Contents)
       /\ \A i \in 1..Len(lastBatch) : lastBatch[i].Key = resultList.Contents[i].Key
  /\ "listObjectsV2" \in Ops(inFlight) => "deleteObjects" \notin Ops(inFlight)
  /\ (pass = 1 /\ listCalls[1] > 0 /\ pc \in {"then", "action", "resolved"}) =>
       deleteCalls[1] = listCalls[1] - (IF EmptyPage(resultList) THEN 1 ELSE 0)
  /\ (pass = 1 /\ pc = "resolved" /\ listCalls[1] = 1 /\ ~EmptyPage(resultList)) =>
       /\ deleteCalls[1] = 1
       /\ Len(lastBatch) = backing[1]
       /\ ENABLED MainThenVersions

C13_Witness ==
  /\ pass = 2
  /\ pc = "action"
  /\ listCalls[1] = 1
  /\ listCalls[2] = 0
  /\ deleteCalls[1] = 1
  /\ Len(lastBatch) = 2

\* the entries a list response hands to deleteObjects
ListedPage(res) ==
  IF res.op = "listObjectsV2" THEN res.Contents ELSE res.Versions \o res.DeleteMarkers

\* C14: for a page of at most bulk size entries the batch sent by
\* deleteObjects holds exactly one reference per listed entry, in order, with
\* the same key, and with a version id if and only if the entry has one, the
\* same one.
C14_BatchConstruction ==
  \A r \in inFlight :
    (r.op = "deleteObjects" /\ Len(ListedPage(resultList)) <= bulkSize) =>
      /\ Len(r.Objects) = Len(ListedPage(resultList))
      /\ \A i \in 1..Len(r.Objects) :
           /\ r.Objects[i].Key = ListedPage(resultList)[i].Key
           /\ r.Objects[i].VersionId # Absent <=>
                ListedPage(resultList)[i].VersionId # Absent
           /\ r.Objects[i].VersionId = ListedPage(resultList)[i].VersionId

C14_Witness ==
  \E r \in inFlight :
    /\ r.op = "deleteObjects"
    /\ r.pass = 2
    /\ Len(r.Objects) = 2
    /\ r.Objects[1].VersionId # Absent
    /\ deleteCalls[1] > 0

\* C15: if an invocation of action fails, at whatever depth of the loop, the
\* error handler is invoked exactly once, with the error of the failed call,
\* and action is not invoked again in that pass; if none fails the handler is
\* never invoked.
C15_OnErrorOnce ==
  /\ Len(onErrorArgs) <= 1
  /\ failed = 0 => onErrorArgs = <<>> /\ rejection = "none"
  /\ failed # 0 =>
       /\ pc \in {"catch", "exit"}
       /\ rejection \in {"listObjectsV2", "listObjectVersions", "deleteObjects"}
       /\ inFlight = {}
       /\ ~ENABLED DoUntilAction
       /\ pc = "exit" => onErrorArgs = <<[pass |-> failed, err |-> rejection]>>
  /\ onErrorArgs # <<>> => failed # 0 /\ pc = "exit"

C15_Witness ==
  /\ onErrorArgs = <<[pass |-> 2, err |-> "deleteObjects"]>>
  /\ listCalls[2] > 1

\* C16: the promise returned by doUntil resolves once condition returns
\* true after an action, and rejects when the action's promise rejects.
C16_RejectsOnFailure ==
  /\ promise = "resolved" => Condition(pass) /\ failed = 0
  /\ (pc \in {"resolved", "exit"} /\ failed = 0) => promise = "resolved"
  /\ (pc = "exit" /\ failed # 0) => promise = "rejected"

InLoop(at) == at \in {"action", "await", "then"}

\* C17: a pass leaves the loop only when condition is true after a
\* successful action or when an action fails; there is no iteration bound:
\* while no call fails and every listObjects response carries a token, list
\* calls are issued again and again and no exit outcome is reached.
C17_NoIterationBound ==
  /\ [][(InLoop(pc) /\ ~InLoop(pc')) =>
          \/ pc = "then" /\ Condition(pass) /\ pc' = "resolved"
          \/ pc = "await" /\ failed' # 0 /\ pc' = "catch"]_vars
  /\ ( /\ [](failed = 0)
       /\ [](resultList.op = "listObjectsV2" =>
               resultList.NextContinuationToken # Absent) )
     => ( /\ [](exitCode = {} /\ pass = 1)
          /\ []<>("listObjectsV2" \in Ops(inFlight)) )

C17_Witness ==
  /\ listCalls[1] = MaxCalls
  /\ deleteCalls[1] = MaxCalls
  /\ resultList.op = "listObjectsV2"
  /\ resultList.NextContinuationToken # Absent
  /\ "listObjectsV2" \in Ops(inFlight)
  /\ failed = 0

\* C18: no deleteObjects call is issued with an empty batch, and every
\* reference of a batch names an entry of the list response of the same loop
\* iteration.
C18_OnlyListedDeleted ==
  /\ \A r \in inFlight :
       r.op = "deleteObjects" =>
         /\ r.Objects # <<>>
         /\ resultList.op = IF r.pass = 1 THEN "listObjectsV2" ELSE "listObjectVersions"
         /\ \A i \in 1..Len(r.Objects) :
              \E e \in Range(resultList.Contents) \cup Range(resultList.Versions)
                         \cup Range(resultList.DeleteMarkers) :
                e.Key = r.Objects[i].Key /\ e.VersionId = r.Objects[i].VersionId
  /\ pageDeletes = 1 => lastBatch # <<>>
  /\ \A p \in 1..2 : deleteCalls[p] > 0 => lastBatch # <<>>

C18_Witness ==
  \E r \in inFlight :
    /\ r.op = "deleteObjects"
    /\ r.pass = 2
    /\ Len(resultList.Versions) > 0
    /\ Len(resultList.DeleteMarkers) > 0
    /\ listCalls[2] > 1

====
